---- MODULE Spec2Model ----
(***************************************************************************)
(* A model of the tile-documents container reader (src-tauri/src/car.rs)   *)
(* and of the Store and the tile: protocol handler (src-tauri/src/lib.rs). *)
(*                                                                         *)
(* Representation.                                                         *)
(*  - A byte is a number in 0..255; a file and a byte buffer are sequences  *)
(*    of bytes. Positions are 0-based as in the source: data[pos] of the   *)
(*    source is data[pos + 1] here.                                        *)
(*  - A string is the sequence of its character codes ("/" is <<47>>).     *)
(*  - An Option is a record with a boolean field some.                     *)
(*  - A u64 accumulated by read_uvarint is the set of its set bit          *)
(*    positions (a subset of 0..63), so that bits shifted past bit 63 are  *)
(*    visibly lost. For arithmetic a u64/usize is narrowed by as_usize to  *)
(*    its residue in the window (-2^30, 2^30): n >= 0 stands for n, n < 0  *)
(*    stands for 2^64 + n, and HUGE stands for every value in between.     *)
(*    The target is taken to be 64-bit (usize = u64).                      *)
(***************************************************************************)
EXTENDS Integers, Sequences, FiniteSets, TLC

None == [some |-> FALSE]

Some(x) == [some |-> TRUE, v |-> x]

\* &data[p..] for a 0-based p <= Len(data)
SliceFrom(data, p) == SubSeq(data, p + 1, Len(data))

\* &data[p..q] for 0-based p <= q <= Len(data)
Slice(data, p, q) == SubSeq(data, p + 1, q)

\* the one element of a singleton
Only(S) == CHOOSE x \in S : TRUE

\* let x = e in F(x): e is evaluated once, whatever use F makes of x
Bind(e, F(_)) == Only({F(x) : x \in {e}})

RECURSIVE FlattenFrom(_, _)
FlattenFrom(ss, i) == IF i > Len(ss) THEN << >> ELSE ss[i] \o FlattenFrom(ss, i + 1)

\* the concatenation of a sequence of sequences
Flatten(ss) == FlattenFrom(ss, 1)

(***************************************************************************)
(* Varint / CID helpers (car.rs, "Varint / CID helpers")                   *)
(***************************************************************************)

\* the bits of (byte & 0x7f) << shift that fit a u64
GroupBits(byte, shift) ==
    {k + shift : k \in {j \in 0..6 : (byte \div (2^j)) % 2 = 1}} \cap (0..63)

RECURSIVE uvarint_loop(_, _, _, _)
uvarint_loop(data, i, value, shift) ==
    IF i >= Len(data) THEN None
    ELSE LET byte == data[i + 1]
             value2 == value \cup GroupBits(byte, shift)
         IN  IF byte < 128 THEN [some |-> TRUE, value |-> value2, n |-> i + 1]
             ELSE IF shift + 7 >= 64 THEN None
             ELSE uvarint_loop(data, i + 1, value2, shift + 7)

\* fn read_uvarint(data: &[u8]) -> Option<(u64, usize)>
read_uvarint(data) == Bind(data, LAMBDA d : uvarint_loop(d, 0, {}, 0))

HUGE == 2^30

\* the number whose set bits, all below bit k, are bits
RECURSIVE BitSum(_, _)
BitSum(bits, k) ==
    IF k = 0 THEN 0
    ELSE (IF k - 1 \in bits THEN 2^(k - 1) ELSE 0) + BitSum(bits, k - 1)

\* v as usize, narrowed to the window
as_usize(v) ==
    Bind(v, LAMBDA bits :
        IF \A b \in bits : b < 30 THEN BitSum(bits, 30)
        ELSE IF \A b \in (0..63) \ bits : b < 30 THEN -(1 + BitSum((0..63) \ bits, 30))
        ELSE HUGE)

\* a + b on usize, for 0 <= a < 2^30: the sum, and whether it passed 2^64.
\* HUGE + a stays below 2^64 and above every file length.
add_usize(a, b) ==
    IF b = HUGE THEN [v |-> HUGE, overflow |-> FALSE]
    ELSE [v |-> a + b, overflow |-> b < 0 /\ a + b >= 0]

\* a - b on usize, for 0 <= b < 2^30 and a in the window
sub_usize(a, b) == [v |-> a - b, overflow |-> a >= 0 /\ a < b]

\* v > len on usize, for a length len < 2^30
gt_usize(v, len) == v = HUGE \/ v < 0 \/ v > len

\* The unsigned varint reader of the cid crate: as read_uvarint, and a
\* non-minimal encoding (a final zero byte after the first) is refused.
cid_varint(data) ==
    Bind(read_uvarint(data), LAMBDA r :
        IF ~r.some THEN None
        ELSE IF r.n > 1 /\ data[r.n] = 0 THEN None
        ELSE [some |-> TRUE, v |-> as_usize(r.value), n |-> r.n])

\* Cid::read_bytes on a cursor over data: the number of bytes the
\* identifier occupies. <version><codec><hash code><digest size><digest>,
\* or the legacy form 0x12 0x20 <32 digest bytes>.
Cid_read_bytes(data) ==
    Bind(cid_varint(data), LAMBDA version :
    IF ~version.some THEN None
    ELSE
    Bind(cid_varint(SliceFrom(data, version.n)), LAMBDA codec :
    IF ~codec.some THEN None
    ELSE IF version.v = 18 /\ codec.v = 32
    THEN IF Len(data) >= version.n + codec.n + 32 THEN Some(version.n + codec.n + 32)
         ELSE None
    ELSE IF version.v # 1 THEN None
    ELSE
    Bind(cid_varint(SliceFrom(data, version.n + codec.n)), LAMBDA code :
    IF ~code.some THEN None
    ELSE
    Bind(cid_varint(SliceFrom(data, version.n + codec.n + code.n)), LAMBDA size :
    IF ~size.some THEN None
    ELSE IF gt_usize(size.v, 64) THEN None
    ELSE IF Len(data) >= version.n + codec.n + code.n + size.n + size.v
    THEN Some(version.n + codec.n + code.n + size.n + size.v)
    ELSE None))))

\* fn parse_cid_from_slice(data: &[u8]) -> Option<Cid>, followed by the
\* caller's cid.to_string(): the canonical text of an identifier is an
\* injective rendering of its canonical bytes, and stands here as those bytes.
parse_cid_from_slice(data) ==
    Bind(Cid_read_bytes(data), LAMBDA r : IF r.some THEN Some(SubSeq(data, 1, r.v)) ELSE None)

\* fn cid_byte_length(data: &[u8]) -> Option<usize>
cid_byte_length(data) == Cid_read_bytes(data)

(***************************************************************************)
(* The generic structured-value decoder (ciborium::de::from_reader), for   *)
(* the part of CBOR the headers use: the eight major types with an         *)
(* immediate or one-byte argument, definite lengths, ASCII text. A value   *)
(* is a record with a field t: Int, Bytes, Text, Array, Map (a sequence of *)
(* <<key, value>> pairs, duplicates kept), Tag, Simple.                    *)
(***************************************************************************)

CborErr == [ok |-> FALSE]

RECURSIVE cbor_item(_, _), cbor_items(_, _, _, _)
cbor_item(b, p) ==
    IF p >= Len(b) THEN CborErr
    ELSE
    LET major == b[p + 1] \div 32
        ai == b[p + 1] % 32
        arg == IF ai < 24 THEN [ok |-> TRUE, v |-> ai, next |-> p + 1]
               ELSE IF ai = 24 /\ p + 1 < Len(b)
                    THEN [ok |-> TRUE, v |-> b[p + 2], next |-> p + 2]
               ELSE CborErr
    IN  IF ~arg.ok THEN CborErr
        ELSE IF major \in {0, 1}
        THEN [ok |-> TRUE, val |-> [t |-> "Int", v |-> IF major = 0 THEN arg.v ELSE -1 - arg.v],
              next |-> arg.next]
        ELSE IF major \in {2, 3}
        THEN IF arg.next + arg.v > Len(b) THEN CborErr
             ELSE LET body == Slice(b, arg.next, arg.next + arg.v)
                  IN  IF major = 3 /\ \E i \in 1..Len(body) : body[i] >= 128 THEN CborErr
                      ELSE [ok |-> TRUE,
                            val |-> [t |-> IF major = 2 THEN "Bytes" ELSE "Text", v |-> body],
                            next |-> arg.next + arg.v]
        ELSE IF major = 4
        THEN Bind(cbor_items(b, arg.next, arg.v, << >>), LAMBDA r :
                IF ~r.ok THEN CborErr
                ELSE [ok |-> TRUE, val |-> [t |-> "Array", v |-> r.vals], next |-> r.next])
        ELSE IF major = 5
        THEN Bind(cbor_items(b, arg.next, 2 * arg.v, << >>), LAMBDA r :
                IF ~r.ok THEN CborErr
                ELSE [ok |-> TRUE,
                      val |-> [t |-> "Map",
                               v |-> [i \in 1..arg.v |-> <<r.vals[2 * i - 1], r.vals[2 * i]>>]],
                      next |-> r.next])
        ELSE IF major = 6
        THEN Bind(cbor_item(b, arg.next), LAMBDA r :
                IF ~r.ok THEN CborErr
                ELSE [ok |-> TRUE, val |-> [t |-> "Tag", n |-> arg.v, v |-> r.val],
                      next |-> r.next])
        ELSE [ok |-> TRUE, val |-> [t |-> "Simple", v |-> arg.v], next |-> arg.next]

\* n items from position p on, after the items vals
cbor_items(b, p, n, vals) ==
    IF n = 0 THEN [ok |-> TRUE, vals |-> vals, next |-> p]
    ELSE Bind(cbor_item(b, p), LAMBDA first :
            IF ~first.ok THEN CborErr
            ELSE Bind(Append(vals, first.val), LAMBDA vals2 :
                    cbor_items(b, first.next, n - 1, vals2)))

\* ciborium::de::from_reader(header_bytes): one value from the front
from_reader(bytes) == Bind(bytes, LAMBDA b : cbor_item(b, 0))

(***************************************************************************)
(* CBOR helpers                                                            *)
(***************************************************************************)

\* fn cbor_to_string(v: &CborValue) -> Option<String>
cbor_to_string(v) == IF v.t = "Text" THEN Some(v.v) ELSE None

\* .unwrap_or_default() on an Option<String>
unwrap_or_default(o) == IF o.some THEN o.v ELSE << >>

\* fn cbor_to_cid_string(v: &CborValue) -> Option<String>
cbor_to_cid_string(v) ==
    IF v.t = "Tag" /\ v.n = 42
    THEN IF v.v.t = "Bytes"
         THEN LET bytes == v.v.v
                  raw == IF Len(bytes) > 0 /\ bytes[1] = 0 THEN Tail(bytes) ELSE bytes
              IN  parse_cid_from_slice(raw)
         ELSE None
    ELSE None

\* HashMap::insert
MapInsert(m, k, x) ==
    Bind(m, LAMBDA old : [j \in DOMAIN old \cup {k} |-> IF j = k THEN x ELSE old[j]])

EmptyMap == [j \in {} |-> 0]

(***************************************************************************)
(* MASL extraction from the CBOR header. A Result is a record with a field *)
(* ok; an error carries its message in err.                                *)
(***************************************************************************)

Err(msg) == [ok |-> FALSE, err |-> msg]

Ok(x) == [ok |-> TRUE, v |-> x]

RECURSIVE resource_loop(_, _, _, _)
resource_loop(map, i, src, headers) ==
    IF i > Len(map)
    THEN IF src.some THEN Ok([src |-> src.v, headers |-> headers])
         ELSE Err("resource missing src field")
    ELSE LET key == unwrap_or_default(cbor_to_string(map[i][1]))
             rv == map[i][2]
         IN  IF key = <<115, 114, 99>>
             THEN Bind(cbor_to_cid_string(rv), LAMBDA c :
                      IF c.some THEN resource_loop(map, i + 1, c, headers)
                      ELSE Err("resource src is not a CID"))
             ELSE LET s == cbor_to_string(rv)
                  IN  IF s.some THEN resource_loop(map, i + 1, src, MapInsert(headers, key, s.v))
                      ELSE resource_loop(map, i + 1, src, headers)

\* fn parse_resource(v: &CborValue) -> Result<Resource>
parse_resource(v) ==
    IF v.t # "Map" THEN Err("resource entry is not a CBOR map")
    ELSE resource_loop(v.v, 1, None, EmptyMap)

RECURSIVE resources_loop(_, _, _)
resources_loop(map, i, out) ==
    IF i > Len(map) THEN Ok(out)
    ELSE LET path == cbor_to_string(map[i][1])
         IN  IF ~path.some THEN Err("resource key is not a string")
             ELSE Bind(parse_resource(map[i][2]), LAMBDA resource :
                      IF ~resource.ok THEN resource
                      ELSE resources_loop(map, i + 1, MapInsert(out, path.v, resource.v)))

\* fn parse_resources(v: &CborValue) -> Result<HashMap<String, Resource>>
parse_resources(v) ==
    IF v.t # "Map" THEN Err("resources is not a CBOR map")
    ELSE resources_loop(v.v, 1, EmptyMap)

RECURSIVE icon_loop(_, _, _)
icon_loop(map, i, icon) ==
    IF i > Len(map) THEN icon
    ELSE LET key == unwrap_or_default(cbor_to_string(map[i][1]))
             iv == map[i][2]
         IN  IF key = <<115, 114, 99>>
             THEN icon_loop(map, i + 1, [icon EXCEPT !.src = cbor_to_string(iv)])
             ELSE IF key = <<115, 105, 122, 101, 115>>
             THEN icon_loop(map, i + 1,
                            [icon EXCEPT !.sizes = unwrap_or_default(cbor_to_string(iv))])
             ELSE IF key = <<112, 117, 114, 112, 111, 115, 101>>
             THEN icon_loop(map, i + 1,
                            [icon EXCEPT !.purpose = unwrap_or_default(cbor_to_string(iv))])
             ELSE icon_loop(map, i + 1, icon)

RECURSIVE icons_loop(_, _, _)
icons_loop(arr, i, out) ==
    IF i > Len(arr) THEN out
    ELSE IF arr[i].t # "Map" THEN icons_loop(arr, i + 1, out)
    ELSE Bind(icon_loop(arr[i].v, 1, [src |-> None, sizes |-> << >>, purpose |-> << >>]),
              LAMBDA icon :
                 IF icon.src.some
                 THEN icons_loop(arr, i + 1,
                                 Append(out, [src |-> icon.src.v, sizes |-> icon.sizes,
                                              purpose |-> icon.purpose]))
                 ELSE icons_loop(arr, i + 1, out))

\* a wrong parse_icons: as strict about its entries as parse_resources
parse_icons_strict(v) ==
    IF v.t # "Array" THEN Err("icons is not a CBOR array")
    ELSE IF Len(icons_loop(v.v, 1, << >>)) # Len(v.v) THEN Err("icon missing src field")
    ELSE Ok(icons_loop(v.v, 1, << >>))

\* fn parse_icons(v: &CborValue) -> Result<Vec<Icon>>
parse_icons(v) ==
    IF v.t # "Array" THEN Err("icons is not a CBOR array")
    ELSE Ok(icons_loop(v.v, 1, << >>))

RECURSIVE masl_loop(_, _, _)
masl_loop(map, i, m) ==
    IF i > Len(map)
    THEN IF m.name.some THEN Ok([m EXCEPT !.name = m.name.v])
         ELSE Err("MASL missing name field")
    ELSE LET key == unwrap_or_default(cbor_to_string(map[i][1]))
             v == map[i][2]
         IN  IF key = <<110, 97, 109, 101>>
             THEN masl_loop(map, i + 1, [m EXCEPT !.name = cbor_to_string(v)])
             ELSE IF key = <<100, 101, 115, 99, 114, 105, 112, 116, 105, 111, 110>>
             THEN masl_loop(map, i + 1, [m EXCEPT !.description = cbor_to_string(v)])
             ELSE IF key = <<115, 104, 111, 114, 116, 95, 110, 97, 109, 101>>
             THEN masl_loop(map, i + 1, [m EXCEPT !.short_name = cbor_to_string(v)])
             ELSE IF key = <<116, 104, 101, 109, 101, 95, 99, 111, 108, 111, 114>>
             THEN masl_loop(map, i + 1, [m EXCEPT !.theme_color = cbor_to_string(v)])
             ELSE IF key = <<98, 97, 99, 107, 103, 114, 111, 117, 110, 100, 95, 99, 111, 108,
                             111, 114>>
             THEN masl_loop(map, i + 1, [m EXCEPT !.background_color = cbor_to_string(v)])
             ELSE IF key = <<114, 101, 115, 111, 117, 114, 99, 101, 115>>
             THEN Bind(parse_resources(v), LAMBDA r :
                      IF r.ok THEN masl_loop(map, i + 1, [m EXCEPT !.resources = r.v]) ELSE r)
             ELSE IF key = <<105, 99, 111, 110, 115>>
             THEN Bind(parse_icons(v), LAMBDA r :
                      IF r.ok THEN masl_loop(map, i + 1, [m EXCEPT !.icons = r.v]) ELSE r)
             ELSE masl_loop(map, i + 1, m)

\* parse_masl from the decoded value on: the walk over the header map
masl_from_value(value) ==
    IF value.t # "Map" THEN Err("CAR header is not a CBOR map")
    ELSE masl_loop(value.v, 1,
                   [name |-> None, resources |-> EmptyMap, icons |-> << >>,
                    description |-> None, short_name |-> None, theme_color |-> None,
                    background_color |-> None])

\* fn parse_masl(header_bytes: &[u8]) -> Result<Masl>
parse_masl(header_bytes) ==
    Bind(from_reader(header_bytes), LAMBDA value :
        IF ~value.ok THEN Err("CBOR decode error") ELSE masl_from_value(value.val))

(***************************************************************************)
(* CAR parsing. The outcome of parse_tile is a record with a field st:     *)
(* "Ok" (with masl and index), "Err" (with err), "Panic" (the thread       *)
(* unwinds) or "Hang" (the block loop never ends). Arithmetic overflow     *)
(* depends on the build: with overflow checks ("debug") it panics, without *)
(* ("release") it wraps.                                                   *)
(***************************************************************************)

Builds == {"debug", "release"}

TileErr(msg) == [st |-> "Err", err |-> msg]

TilePanic == [st |-> "Panic"]

TileHang == [st |-> "Hang"]

\* a wrong index.insert: an identifier seen again keeps its first entry
index_insert_first_wins(index, cid, entry) ==
    IF cid \in DOMAIN index THEN index ELSE MapInsert(index, cid, entry)

\* index.insert(cid.to_string(), (data_offset, data_len));
index_insert(index, cid, entry) == MapInsert(index, cid, entry)

RECURSIVE block_loop(_, _, _, _, _, _)
block_loop(data, pos, index, seen, masl, build) ==
    IF ~(pos < Len(data)) THEN [st |-> "Ok", masl |-> masl, index |-> index]
    ELSE IF pos \in seen THEN TileHang
    ELSE
    Bind(read_uvarint(SliceFrom(data, pos)), LAMBDA lenv :
    IF ~lenv.some THEN TileErr("failed to read block varint")
    ELSE
    LET block_len == as_usize(lenv.value)
        pos2 == pos + lenv.n
        block_end == add_usize(pos2, block_len)
    IN  IF block_len = 0 THEN [st |-> "Ok", masl |-> masl, index |-> index]
        ELSE IF block_end.overflow /\ build = "debug" THEN TilePanic
        ELSE IF gt_usize(block_end.v, Len(data)) THEN TileErr("block extends beyond file")
        ELSE
        Bind(parse_cid_from_slice(SliceFrom(data, pos2)), LAMBDA cid :
        Bind(cid_byte_length(SliceFrom(data, pos2)), LAMBDA cid_len :
        IF ~cid.some THEN TileErr("failed to parse CID")
        ELSE IF ~cid_len.some THEN TileErr("failed to measure CID length")
        ELSE
        LET data_offset == pos2 + cid_len.v
            data_len == sub_usize(block_len, cid_len.v)
        IN  IF data_len.overflow /\ build = "debug" THEN TilePanic
            ELSE Bind(index_insert(index, cid.v, <<data_offset, data_len.v>>),
                      LAMBDA index2 :
                         block_loop(data, block_end.v, index2, seen \cup {pos}, masl,
                                    build)))))

\* pub fn parse_tile(path: &Path) -> Result<TileContent>, from the bytes read
parse_tile(file, build) ==
    Bind(file, LAMBDA data :
    Bind(read_uvarint(data), LAMBDA hl :
    IF ~hl.some THEN TileErr("failed to read CAR header varint")
    ELSE
    LET pos == hl.n
        header_end == add_usize(pos, as_usize(hl.value))
    IN  IF header_end.overflow /\ build = "debug" THEN TilePanic
        ELSE IF gt_usize(header_end.v, Len(data))
        THEN TileErr("CAR header length exceeds file size")
        ELSE IF header_end.v < pos THEN TilePanic
        ELSE
        Bind(parse_masl(Slice(data, pos, header_end.v)), LAMBDA masl :
        IF ~masl.ok THEN TileErr(masl.err)
        ELSE block_loop(data, header_end.v, EmptyMap, {}, masl.v, build))))

(***************************************************************************)
(* Building inputs: the encodings the decoders above read.                 *)
(***************************************************************************)

Text(s) == [t |-> "Text", v |-> s]

Bytes(b) == [t |-> "Bytes", v |-> b]

IntV(n) == [t |-> "Int", v |-> n]

ArrayV(items) == [t |-> "Array", v |-> items]

MapV(pairs) == [t |-> "Map", v |-> pairs]

Tag(n, inner) == [t |-> "Tag", n |-> n, v |-> inner]

\* a DAG-CBOR link to the identifier with canonical bytes cid
Link(cid) == Tag(42, Bytes(<<0>> \o cid))

\* the initial byte and argument of a CBOR item, for an argument below 256
CborHead(major, n) == IF n < 24 THEN <<32 * major + n>> ELSE <<32 * major + 24, n>>

RECURSIVE Encode(_)
Encode(val) ==
    CASE val.t = "Int" -> IF val.v >= 0 THEN CborHead(0, val.v) ELSE CborHead(1, -1 - val.v)
      [] val.t = "Bytes" -> CborHead(2, Len(val.v)) \o val.v
      [] val.t = "Text" -> CborHead(3, Len(val.v)) \o val.v
      [] val.t = "Array" ->
            CborHead(4, Len(val.v)) \o Flatten([i \in 1..Len(val.v) |-> Encode(val.v[i])])
      [] val.t = "Map" ->
            CborHead(5, Len(val.v))
                \o Flatten([i \in 1..Len(val.v) |-> Encode(val.v[i][1]) \o Encode(val.v[i][2])])
      [] val.t = "Tag" -> CborHead(6, val.n) \o Encode(val.v)
      [] val.t = "Simple" -> CborHead(7, val.v)

\* the LEB128 encoding of n >= 0
RECURSIVE Uvarint(_)
Uvarint(n) == IF n < 128 THEN <<n>> ELSE <<128 + (n % 128)>> \o Uvarint(n \div 128)

\* <uvarint header-length><header-bytes>
HeaderBytes(val) == LET h == Encode(val) IN Uvarint(Len(h)) \o h

\* <uvarint block-length><content-identifier><payload-bytes>
BlockBytes(cid, payload) == Uvarint(Len(cid) + Len(payload)) \o cid \o payload

\* character codes of the strings the source names
S_name == <<110, 97, 109, 101>>

S_src == <<115, 114, 99>>

S_resources == <<114, 101, 115, 111, 117, 114, 99, 101, 115>>

S_icons == <<105, 99, 111, 110, 115>>

S_content_type == <<99, 111, 110, 116, 101, 110, 116, 45, 116, 121, 112, 101>>

S_index_html == <<47, 105, 110, 100, 101, 120, 46, 104, 116, 109, 108>>

\* identifiers: version 1, codec raw (0x55) or 0, identity hash, a short digest
CidA == <<1, 85, 0, 1, 7>>

CidB == <<1, 85, 0, 1, 9>>

CidZ == <<1, 0, 0, 0>>

(***************************************************************************)
(* The tile: protocol handler's path resolution (lib.rs)                   *)
(***************************************************************************)

\* let path = if raw_path.is_empty() { "/" } else { raw_path };
normalise(raw_path) == IF raw_path = << >> THEN <<47>> ELSE raw_path

\* path.ends_with('/')
ends_with_slash(path) == Len(path) > 0 /\ path[Len(path)] = 47

\* path.trim_end_matches('/')
RECURSIVE trim_end_matches_slash(_)
trim_end_matches_slash(path) ==
    IF ends_with_slash(path) THEN trim_end_matches_slash(SubSeq(path, 1, Len(path) - 1))
    ELSE path

\* a wrong candidate list: the index document stands in for every directory
candidates_index_everywhere(path) ==
    << path,
       IF ends_with_slash(path) THEN trim_end_matches_slash(path) ELSE path,
       IF ~ends_with_slash(path) THEN path \o <<47>> ELSE path,
       IF ends_with_slash(path) THEN S_index_html ELSE path >>

\* let candidates: &[&str] = &[ ... ];
candidates(path) ==
    << path,
       IF ends_with_slash(path) THEN trim_end_matches_slash(path) ELSE path,
       IF ~ends_with_slash(path) THEN path \o <<47>> ELSE path,
       IF path = <<47>> THEN S_index_html ELSE path >>

\* candidates.iter().find_map(|p| resources.get(*p))
RECURSIVE find_map(_, _, _)
find_map(cands, i, resources) ==
    IF i > Len(cands) THEN None
    ELSE IF cands[i] \in DOMAIN resources THEN Some(resources[cands[i]])
    ELSE find_map(cands, i + 1, resources)

\* the resource the handler serves for a request path, if any
resolve(resources, raw_path) == find_map(candidates(normalise(raw_path)), 1, resources)

(***************************************************************************)
(* Authority helpers (car.rs)                                              *)
(***************************************************************************)

\* the components of a path between its separators
RECURSIVE split_slash(_, _, _)
split_slash(path, i, cur) ==
    IF i > Len(path) THEN <<cur>>
    ELSE IF path[i] = 47 THEN <<cur>> \o split_slash(path, i + 1, << >>)
    ELSE split_slash(path, i + 1, Append(cur, path[i]))

\* Path::file_name: the last component, unless the path ends in "..";
\* empty components and "." components are not components.
file_name(path) ==
    LET parts == SelectSeq(split_slash(path, 1, << >>),
                           LAMBDA c : c # << >> /\ c # <<46>>)
    IN  IF parts = << >> THEN None
        ELSE IF parts[Len(parts)] = <<46, 46>> THEN None
        ELSE Some(parts[Len(parts)])

\* Path::file_stem: the file name up to its last '.', the whole name when
\* it has no '.' or only a leading one
file_stem(path) ==
    LET name == file_name(path)
    IN  IF ~name.some THEN None
        ELSE LET dots == {i \in 1..Len(name.v) : name.v[i] = 46}
             IN  IF dots = {} THEN name
                 ELSE LET last == CHOOSE i \in dots : \A j \in dots : j <= i
                      IN  IF last = 1 THEN name
                          ELSE Some(SubSeq(name.v, 1, last - 1))

\* char::to_lowercase, for the characters up to U+00FF
to_lowercase(c) ==
    IF c \in 65..90 THEN c + 32
    ELSE IF c \in 192..222 /\ c # 215 THEN c + 32
    ELSE c

\* a wrong character map: the period is kept
authority_char_keeps_period(c) ==
    IF c \in 48..57 \/ c \in 65..90 \/ c \in 97..122 \/ c = 45 \/ c = 46 THEN c ELSE 45

\* |c| if c.is_ascii_alphanumeric() || c == '-' { c } else { '-' }
authority_char(c) ==
    IF c \in 48..57 \/ c \in 65..90 \/ c \in 97..122 \/ c = 45 THEN c ELSE 45

\* str::trim_matches('-')
RECURSIVE trim_matches_hyphen(_)
trim_matches_hyphen(s) ==
    IF s = << >> THEN s
    ELSE IF s[1] = 45 THEN trim_matches_hyphen(Tail(s))
    ELSE IF s[Len(s)] = 45 THEN trim_matches_hyphen(SubSeq(s, 1, Len(s) - 1))
    ELSE s

\* pub fn authority_from_path(path: &Path) -> String
authority_from_path(path) ==
    LET stem == IF file_stem(path).some THEN file_stem(path).v ELSE <<116, 105, 108, 101>>
    IN  trim_matches_hyphen([i \in 1..Len(stem) |-> authority_char(to_lowercase(stem[i]))])

(***************************************************************************)
(* Tile content and the Block Reader (car.rs)                              *)
(***************************************************************************)

\* a wrong lookup: an identifier that is not indexed reads as an empty block
read_block_lookup_lenient(tile, cid_str) ==
    IF cid_str \in DOMAIN tile.index THEN Ok(tile.index[cid_str]) ELSE Ok(<<0, 0>>)

\* .index.get(cid_str).ok_or_else(|| anyhow!("block not found for CID {cid_str}"))
read_block_lookup(tile, cid_str) ==
    IF cid_str \in DOMAIN tile.index THEN Ok(tile.index[cid_str])
    ELSE Err(<<98, 108, 111, 99, 107, 32, 110, 111, 116, 32, 102, 111, 117, 110, 100, 32, 102, 111, 114, 32, 67, 73, 68, 32>> \o cid_str)

\* File::open, seek, vec![0u8; len as usize], read_exact. files is the
\* file system (path -> bytes), entry the (offset, len) pair of the index.
\* The outcome is a Result, or a panic: a vector of more than isize::MAX
\* bytes cannot be allocated.
read_block_io(files, path, entry) ==
    IF path \notin DOMAIN files
    THEN [st |-> "Err", err |-> <<78, 111, 32, 115, 117, 99, 104, 32, 102, 105, 108, 101, 32, 111, 114, 32, 100, 105, 114, 101, 99, 116, 111, 114, 121, 32, 40, 111, 115, 32, 101, 114, 114, 111, 114, 32, 50, 41>>]
    ELSE IF entry[2] < 0 THEN [st |-> "Panic"]
    ELSE IF entry[1] + entry[2] > Len(files[path])
    THEN [st |-> "Err", err |-> <<102, 97, 105, 108, 101, 100, 32, 116, 111, 32, 102, 105, 108, 108, 32, 119, 104, 111, 108, 101, 32, 98, 117, 102, 102, 101, 114>>]
    ELSE [st |-> "Ok", v |-> Slice(files[path], entry[1], entry[1] + entry[2])]

(***************************************************************************)
(* The tile: custom protocol (lib.rs). A response is a record of status,   *)
(* headers (a sequence of <<name, value>> pairs) and body.                 *)
(***************************************************************************)

\* let error = |status: u16, msg: &str| { ... }
error(status, msg) ==
    [status |-> status,
     headers |-> << <<S_content_type, <<116, 101, 120, 116, 47, 112, 108, 97, 105, 110>>>> >>,
     body |-> msg]

\* The resource as the handler reads it: one flat map from key to string,
\* the identifier under "src" beside the header entries.
flat_resource(resource) == MapInsert(resource.headers, S_src, resource.src)

\* http::HeaderName::from_bytes: a non-empty token, stored in lower case
header_name(k) ==
    IF k # << >>
       /\ \A i \in 1..Len(k) :
            k[i] \in (48..57) \cup (65..90) \cup (97..122)
                     \cup {33, 35, 36, 37, 38, 39, 42, 43, 45, 46, 94, 95, 96, 124, 126}
    THEN Some([i \in 1..Len(k) |-> IF k[i] \in 65..90 THEN k[i] + 32 ELSE k[i]])
    ELSE None

\* http::HeaderValue::from_str: visible characters, space and tab
header_value(v) ==
    IF \A i \in 1..Len(v) : (v[i] >= 32 /\ v[i] # 127) \/ v[i] = 9 THEN Some(v) ELSE None

\* Builder::header: a name or value that is not valid turns the builder
\* into an error, which it stays
builder_header(builder, k, v) ==
    Bind(builder, LAMBDA b :
        IF ~b.ok THEN b
        ELSE IF ~header_name(k).some \/ ~header_value(v).some THEN [ok |-> FALSE]
        ELSE [ok |-> TRUE, headers |-> Append(b.headers, <<header_name(k).v, v>>)])

RECURSIVE forward_headers(_, _, _, _)
forward_headers(builder, res, order, i) ==
    IF i > Len(order) THEN builder
    ELSE IF order[i] # S_content_type /\ order[i] # S_src
    THEN forward_headers(builder_header(builder, order[i], res[order[i]]), res, order, i + 1)
    ELSE forward_headers(builder, res, order, i + 1)

\* the orders in which a HashMap with the keys S may be iterated
Orders(S) ==
    {o \in [1..Cardinality(S) -> S] : \A i, j \in 1..Cardinality(S) : o[i] = o[j] => i = j}

\* handle_tile_protocol from the Store lookup to the index lookup of
\* read_block, under the Store lock: a response, or the tile, the resource
\* and the index entry the block read continues with.
handler_resolve(guard, authority, path) ==
    IF authority \notin DOMAIN guard
    THEN [done |-> TRUE, resp |-> error(404, <<116, 105, 108, 101, 32, 110, 111, 116, 32, 108, 111, 97, 100, 101, 100>>)]
    ELSE
    LET tile == guard[authority]
        found == find_map(candidates(path), 1, tile.masl.resources)
    IN  IF ~found.some
        THEN [done |-> TRUE, resp |-> error(404, <<110, 111, 32, 114, 101, 115, 111, 117, 114, 99, 101, 32, 97, 116, 32>> \o path)]
        ELSE
        LET res == flat_resource(found.v)
        IN  IF S_src \notin DOMAIN res
            THEN [done |-> TRUE, resp |-> error(500, <<114, 101, 115, 111, 117, 114, 99, 101, 32, 109, 105, 115, 115, 105, 110, 103, 32, 115, 114, 99>>)]
            ELSE
            LET entry == read_block_lookup(tile, res[S_src])
            IN  IF ~entry.ok THEN [done |-> TRUE, resp |-> error(500, entry.err)]
                ELSE [done |-> FALSE, file |-> tile.path, res |-> res, entry |-> entry.v]

\* handle_tile_protocol from the file read of read_block to its return:
\* a response, or the panic of .unwrap() on a builder that is an error.
\* order is the order in which the resource's entries are iterated.
handler_respond(files, file, res, entry, order) ==
    LET data == read_block_io(files, file, entry)
    IN  IF data.st = "Panic" THEN [kind |-> "panic"]
        ELSE IF data.st = "Err" THEN [kind |-> "response", resp |-> error(500, data.err)]
        ELSE
        LET content_type == IF S_content_type \in DOMAIN res THEN res[S_content_type]
                            ELSE <<97, 112, 112, 108, 105, 99, 97, 116, 105, 111, 110, 47, 111, 99, 116, 101, 116, 45, 115, 116, 114, 101, 97, 109>>
            b0 == builder_header([ok |-> TRUE, headers |-> << >>], S_content_type, content_type)
            b1 == builder_header(b0, <<97, 99, 99, 101, 115, 115, 45, 99, 111, 110, 116, 114, 111, 108, 45, 97, 108, 108, 111, 119, 45, 111, 114, 105, 103, 105, 110>>, <<42>>)
            b2 == forward_headers(b1, res, order, 1)
        IN  IF ~b2.ok THEN [kind |-> "panic"]
            ELSE [kind |-> "response",
                  resp |-> [status |-> 200, headers |-> b2.headers, body |-> data.v]]

(***************************************************************************)
(* State.                                                                  *)
(*   build                    how the program was built (see Builds)       *)
(*   input, outcome           a container file given to parse_tile, and    *)
(*                            what parse_tile made of it                   *)
(*   reqPath, reqResources,   a request path, a manifest's resource map,   *)
(*   served                   and the resource the handler finds           *)
(*   fname, authority         a file path and the authority derived        *)
(*   buf, decoded             a byte buffer and what read_uvarint made of  *)
(*                            it                                           *)
(*   disk                     the files present in the file system         *)
(*   store                    TileStore: authority -> TileContent          *)
(*   lock, poisoned           the Store's Mutex: its holder (0: free) and  *)
(*                            whether a holder panicked                    *)
(*   pc, loc                  each thread's position and locals            *)
(*   out                      what each thread's last call returned        *)
(*   log                      the open calls that returned, in order       *)
(*   opsLeft                  calls still to be made                       *)
(***************************************************************************)
VARIABLES build, input, outcome, reqPath, reqResources, served, fname, authority,
          buf, decoded, disk, store, lock, poisoned, pc, loc, out, log, opsLeft

parseVars == <<input, outcome>>

resolveVars == <<reqPath, reqResources, served>>

authVars == <<fname, authority>>

varintVars == <<buf, decoded>>

sysVars == <<disk, store, lock, poisoned, pc, loc, out, log, opsLeft>>

vars == <<build, parseVars, resolveVars, authVars, varintVars, sysVars>>

NotRun == [st |-> "None"]

\* all sequences over S of length at most n
SeqsUpTo(S, n) == UNION {[1..k -> S] : k \in 0..n}

(***************************************************************************)
(* parse_tile on a family of container files, well-formed and not.         *)
(***************************************************************************)

MaxPieces == 3

\* how many bytes a file may be short of its end
Cuts == {0, 1}

MaxResources == 2

MaxIcons == 2

Payloads == {<< >>, <<0, 6>>}

\* Malformed blocks, as length bytes and what follows them: a length of 1
\* before a four-byte identifier; a length of 2^64 - 10 in ten bytes; a
\* varint that does not end in its first byte; bytes that are no identifier
RawBlocks ==
    {[k |-> "raw", x |-> <<1>>, y |-> CidZ],
     [k |-> "raw", x |-> <<246, 255, 255, 255, 255, 255, 255, 255, 255, 1>>, y |-> CidZ],
     [k |-> "raw", x |-> <<200>>, y |-> << >>],
     [k |-> "raw", x |-> <<2>>, y |-> <<2, 85>>]}

\* A piece of a file after its header: a well-formed block (x its
\* identifier, y its payload), the end marker, or a malformed block (x its
\* length bytes, y what follows them).
Pieces ==
    [k : {"block"}, x : {CidA, CidB}, y : Payloads]
        \cup [k : {"end"}, x : {<< >>}, y : {<< >>}]
        \cup RawBlocks

PieceBytes(p) ==
    CASE p.k = "block" -> BlockBytes(p.x, p.y)
      [] p.k = "end" -> <<0>>
      [] p.k = "raw" -> p.x \o p.y

\* The header map's name entry: 0 none, 1 a text, 2 a number
NameEntry(n) ==
    CASE n = 0 -> << >>
      [] n = 1 -> << <<Text(S_name), Text(<<116>>)>> >>
      [] n = 2 -> << <<Text(S_name), IntV(1)>> >>

\* The entries of a resources map: 1 a link under src; 2 a link under src,
\* a content type and a number under x; 3 no src; 4 a text under src
ResourceOption(i) ==
    CASE i = 1 -> MapV(<< <<Text(S_src), Link(CidA)>> >>)
      [] i = 2 -> MapV(<< <<Text(S_src), Link(CidB)>>,
                          <<Text(S_content_type), Text(<<116>>)>>,
                          <<Text(<<120>>), IntV(1)>> >>)
      [] i = 3 -> MapV(<< <<Text(S_content_type), Text(<<116>>)>> >>)
      [] i = 4 -> MapV(<< <<Text(S_src), Text(<<120>>)>> >>)

ResourceOptions == 1..4

\* The entries of an icons array: 1 a number; 2 a text under src; 3 a text
\* under src, a text under sizes and a number under purpose; 4 no src;
\* 5 a number under src
IconOption(i) ==
    CASE i = 1 -> IntV(7)
      [] i = 2 -> MapV(<< <<Text(S_src), Text(<<105>>)>> >>)
      [] i = 3 -> MapV(<< <<Text(S_src), Text(<<106>>)>>,
                          <<Text(<<115, 105, 122, 101, 115>>), Text(<<115>>)>>,
                          <<Text(<<112, 117, 114, 112, 111, 115, 101>>), IntV(2)>> >>)
      [] i = 4 -> MapV(<< <<Text(<<115, 105, 122, 101, 115>>), Text(<<115>>)>> >>)
      [] i = 5 -> MapV(<< <<Text(S_src), IntV(1)>>, <<Text(<<115, 105, 122, 101, 115>>), Text(<<115>>)>> >>)

IconOptions == 1..5

\* the resource keys "/a", "/b", ... by position
ResourceKey(i) == <<47, 96 + i>>

\* The header map's resources entry (kind 0 none, 1 a number, 2 a map of
\* the entries es) and its icons entry (likewise, an array)
ResourcesEntry(kind, es) ==
    CASE kind = 0 -> << >>
      [] kind = 1 -> << <<Text(S_resources), IntV(0)>> >>
      [] kind = 2 -> << <<Text(S_resources),
                          MapV([i \in 1..Len(es) |->
                                  <<Text(ResourceKey(i)), ResourceOption(es[i])>>])>> >>

IconsEntry(kind, is) ==
    CASE kind = 0 -> << >>
      [] kind = 1 -> << <<Text(S_icons), IntV(0)>> >>
      [] kind = 2 -> << <<Text(S_icons), ArrayV([i \in 1..Len(is) |-> IconOption(is[i])])>> >>

\* the header value an input describes
InputHeader(in) ==
    MapV(NameEntry(in.name) \o ResourcesEntry(in.resKind, in.res)
            \o IconsEntry(in.iconKind, in.icons))

\* the bytes of the file an input describes
InputFile(in) ==
    LET full == HeaderBytes(InputHeader(in))
                    \o Flatten([i \in 1..Len(in.pieces) |-> PieceBytes(in.pieces[i])])
    IN  SubSeq(full, 1, Len(full) - in.cut)

NoInput ==
    [name |-> 0, resKind |-> 0, res |-> << >>, iconKind |-> 0, icons |-> << >>,
     pieces |-> << >>, cut |-> 0]

ParseInputs ==
    {in \in [name : {1}, resKind : {0}, res : {<< >>}, iconKind : {0}, icons : {<< >>},
             pieces : SeqsUpTo(Pieces, MaxPieces), cut : Cuts] : TRUE}

HeaderInputs ==
    {in \in [name : 0..2, resKind : 0..2, res : SeqsUpTo(ResourceOptions, MaxResources),
             iconKind : 0..2, icons : SeqsUpTo(IconOptions, MaxIcons),
             pieces : {<< >>}, cut : {0}] :
        /\ in.resKind # 2 => in.res = << >>
        /\ in.iconKind # 2 => in.icons = << >>}

InitParse ==
    /\ \/ input \in ParseInputs /\ build \in Builds
       \/ input \in HeaderInputs /\ build = "release"
    /\ outcome = NotRun
    /\ reqPath = << >> /\ reqResources = EmptyMap /\ served = NotRun
    /\ fname = << >> /\ authority = NotRun
    /\ buf = << >> /\ decoded = NotRun
    /\ disk = {} /\ store = EmptyMap /\ lock = 0 /\ poisoned = FALSE
    /\ pc = << >> /\ loc = << >> /\ out = << >> /\ log = << >> /\ opsLeft = 0

ParseTile ==
    /\ outcome = NotRun
    /\ outcome' = parse_tile(InputFile(input), build)
    /\ UNCHANGED <<build, input, resolveVars, authVars, varintVars, sysVars>>

SpecParse == InitParse /\ [][ParseTile]_vars

(***************************************************************************)
(* The handler's path resolution on a family of paths and resource maps.   *)
(***************************************************************************)

MaxPathLen == 3

\* request paths: over "/" and "a", and the index document
RequestPaths == SeqsUpTo({47, 97}, MaxPathLen) \cup {S_index_html}

ResourceKeys == SeqsUpTo({47, 97}, 2) \cup {<<47, 97, 47>>, S_index_html}

InitResolve ==
    /\ reqPath \in RequestPaths
    /\ \E keys \in SUBSET ResourceKeys :
          reqResources = [k \in keys |-> [src |-> k, headers |-> EmptyMap]]
    /\ served = NotRun
    /\ build = "release" /\ input = NoInput /\ outcome = NotRun
    /\ fname = << >> /\ authority = NotRun
    /\ buf = << >> /\ decoded = NotRun
    /\ disk = {} /\ store = EmptyMap /\ lock = 0 /\ poisoned = FALSE
    /\ pc = << >> /\ loc = << >> /\ out = << >> /\ log = << >> /\ opsLeft = 0

Resolve ==
    /\ served = NotRun
    /\ served' = [st |-> "Done", found |-> resolve(reqResources, reqPath)]
    /\ UNCHANGED <<build, reqPath, reqResources, parseVars, authVars, varintVars, sysVars>>

SpecResolve == InitResolve /\ [][Resolve]_vars

(***************************************************************************)
(* authority_from_path on a family of file paths.                          *)
(***************************************************************************)

MaxNameLen == 3

\* "My Document.tile"
MyDocumentTile == <<77, 121, 32, 68, 111, 99, 117, 109, 101, 110, 116, 46, 116, 105, 108, 101>>

\* characters of file paths: A b 1 - . space / and U+00C9
PathChars == {65, 98, 49, 45, 46, 32, 47, 201}

FilePaths ==
    SeqsUpTo(PathChars, MaxNameLen)
        \cup {MyDocumentTile}
        \cup {p \o <<46, 116, 105, 108, 101>> : p \in SeqsUpTo(PathChars, MaxNameLen - 1)}

InitAuth ==
    /\ fname \in FilePaths
    /\ authority = NotRun
    /\ buf = << >> /\ decoded = NotRun
    /\ build = "release" /\ input = NoInput /\ outcome = NotRun
    /\ reqPath = << >> /\ reqResources = EmptyMap /\ served = NotRun
    /\ disk = {} /\ store = EmptyMap /\ lock = 0 /\ poisoned = FALSE
    /\ pc = << >> /\ loc = << >> /\ out = << >> /\ log = << >> /\ opsLeft = 0

AuthorityFromPath ==
    /\ authority = NotRun
    /\ authority' = [st |-> "Done", v |-> authority_from_path(fname)]
    /\ UNCHANGED <<build, fname, parseVars, resolveVars, varintVars, sysVars>>

SpecAuth == InitAuth /\ [][AuthorityFromPath]_vars

(***************************************************************************)
(* read_uvarint on a family of byte buffers.                               *)
(***************************************************************************)

\* how many bytes with the continuation bit a buffer may start with
MaxContinuation == 10

\* bytes with the continuation bit: no, the lowest, and all value bits set
ContinuationBytes == {128, 129, 255}

\* what follows them: nothing, or a byte without the continuation bit,
\* alone or before one more byte
VarintTails == {<< >>, <<0>>, <<1>>, <<2>>, <<127>>, <<1, 255>>, <<127, 0>>}

VarintInputs ==
    {[i \in 1..n |-> c] \o tail :
        n \in 0..MaxContinuation, c \in ContinuationBytes, tail \in VarintTails}

InitVarint ==
    /\ buf \in VarintInputs
    /\ decoded = NotRun
    /\ build = "release" /\ input = NoInput /\ outcome = NotRun
    /\ reqPath = << >> /\ reqResources = EmptyMap /\ served = NotRun
    /\ fname = << >> /\ authority = NotRun
    /\ disk = {} /\ store = EmptyMap /\ lock = 0 /\ poisoned = FALSE
    /\ pc = << >> /\ loc = << >> /\ out = << >> /\ log = << >> /\ opsLeft = 0

ReadUvarint ==
    /\ decoded = NotRun
    /\ decoded' = [st |-> "Done", r |-> read_uvarint(buf)]
    /\ UNCHANGED <<build, buf, parseVars, resolveVars, authVars, sysVars>>

SpecVarint == InitVarint /\ [][ReadUvarint]_vars

(***************************************************************************)
(* Claims about the pure functions.                                        *)
(***************************************************************************)

\* the least element of a non-empty set of numbers
Least(S) == CHOOSE i \in S : \A j \in S : i <= j

\* p without its trailing "/" characters
StripSlashes(p) ==
    LET keep == {i \in 0..Len(p) : \A j \in (i + 1)..Len(p) : p[j] = 47}
    IN  SubSeq(p, 1, Least(keep))

\* the ordered candidate keys of a request path, as the resolver is described
ClaimedCandidates(p) ==
    <<p, StripSlashes(p)>>
        \o (IF Len(p) > 0 /\ p[Len(p)] = 47 THEN << >> ELSE <<p \o <<47>>>>)
        \o (IF p = <<47>> THEN <<S_index_html>> ELSE << >>)

\* C1: the resolver returns the resource under the first key of the ordered
\* candidate list [p, p without trailing "/", p with "/" appended if it had
\* none, "/index.html" iff p is "/"] that is a key of the resource map (the
\* empty path standing for "/"), and finds nothing exactly when no candidate
\* is a key.
C1_FirstCandidateWins ==
    served.st = "Done" =>
        LET p == IF reqPath = << >> THEN <<47>> ELSE reqPath
            cands == ClaimedCandidates(p)
            hits == {i \in 1..Len(cands) : cands[i] \in DOMAIN reqResources}
        IN  IF hits = {} THEN ~served.found.some
            ELSE /\ served.found.some
                 /\ served.found.v = reqResources[cands[Least(hits)]]

\* "/" has been resolved against a manifest holding only "/index.html"
C1_Witness ==
    /\ served.st = "Done"
    /\ reqPath = <<47>>
    /\ DOMAIN reqResources = {S_index_html}
    /\ served.found.some

\* C2 (as claimed): parse_tile returns an error, or a container whose every
\* index entry (offset, length) has a length that did not wrap and lies in
\* the file: offset + length <= file size. (A length below 0 stands for one
\* of at least 2^64 - 2^30.)
C2_EntriesLieInFile ==
    outcome.st # "None" =>
        \/ outcome.st = "Err"
        \/ /\ outcome.st = "Ok"
           /\ \A c \in DOMAIN outcome.index :
                /\ outcome.index[c][2] >= 0
                /\ outcome.index[c][1] + outcome.index[c][2] <= Len(InputFile(input))

\* the pieces of an input before its first end marker
ScannedPieces(in) ==
    LET ends == {i \in 1..Len(in.pieces) : in.pieces[i].k = "end"}
    IN  IF ends = {} THEN in.pieces ELSE SubSeq(in.pieces, 1, Least(ends) - 1)

\* a file is well-formed: whole, and every block up to the end marker (or
\* the end of the file) is an identifier followed by its payload
WellFormed(in) ==
    /\ in.cut = 0
    /\ in.name = 1 /\ in.resKind = 0 /\ in.iconKind = 0
    /\ \A i \in 1..Len(ScannedPieces(in)) : in.pieces[i].k = "block"

\* where the payload of the i-th piece, a block, starts in the file
PayloadOffset(in, i) ==
    Len(HeaderBytes(InputHeader(in)))
        + Len(Flatten([j \in 1..(i - 1) |-> PieceBytes(in.pieces[j])]))
        + Len(Uvarint(Len(in.pieces[i].x) + Len(in.pieces[i].y)))
        + Len(in.pieces[i].x)

\* the index of a well-formed file: each identifier to the payload range of
\* the last block before the end marker that carries it
ClaimedIndex(in) ==
    LET n == Len(ScannedPieces(in))
        last(c) == CHOOSE i \in 1..n :
                      /\ in.pieces[i].x = c
                      /\ \A j \in (i + 1)..n : in.pieces[j].x # c
    IN  [c \in {in.pieces[i].x : i \in 1..n} |->
            <<PayloadOffset(in, last(c)), Len(in.pieces[last(c)].y)>>]

\* C3: for a well-formed file the block scan ends, successfully, and the
\* index sends each identifier of a block before the first zero block length
\* (or the end of the file) to the payload range of the last such block; no
\* block after the zero block length is indexed.
C3_IndexIsLastBlockPerIdentifier ==
    (outcome.st # "None" /\ WellFormed(input)) =>
        /\ outcome.st = "Ok"
        /\ outcome.index = ClaimedIndex(input)

\* a well-formed file with an identifier in two blocks of different
\* payloads and then an end marker has been parsed
C3_Witness ==
    /\ outcome.st = "Ok"
    /\ WellFormed(input)
    /\ \E i, j \in 1..Len(ScannedPieces(input)) :
          /\ i < j
          /\ input.pieces[i].x = input.pieces[j].x
          /\ input.pieces[i].y # input.pieces[j].y
    /\ Len(ScannedPieces(input)) < Len(input.pieces)

\* what the descriptions of the header entries say: a resource entry has an
\* identifier link under src; an icon entry is a map with a src key; an icon
\* entry is a map with a text under src; the icon a kept entry gives
ResourceHasLink(i) == i \in {1, 2}

IconHasSrcKey(i) == i \in {2, 3, 5}

IconHasTextSrc(i) == i \in {2, 3}

IconOf(i) ==
    IF i = 2 THEN [src |-> <<105>>, sizes |-> << >>, purpose |-> << >>]
    ELSE [src |-> <<106>>, sizes |-> <<115>>, purpose |-> << >>]

HeaderOnly(in) == in.pieces = << >> /\ in.cut = 0

\* a header with a text name, well-formed resources (or none) and an icons
\* array (or none)
HeaderAccepted(in) ==
    /\ in.name = 1
    /\ in.resKind # 1 /\ \A i \in 1..Len(in.res) : ResourceHasLink(in.res[i])
    /\ in.iconKind # 1

\* strict for name and resources: no text-valued name, or a resources entry
\* without an identifier link under src, fails the whole parse
StrictNameAndResources ==
    /\ input.name # 1 => outcome.st = "Err"
    /\ (\E i \in 1..Len(input.res) : ~ResourceHasLink(input.res[i])) => outcome.st = "Err"

\* C4 (as claimed): strict for name and resources; an icons entry that is
\* not a map or lacks src is omitted, every other icon is kept, and the
\* parse succeeds.
C4_IconsWithSrcKept ==
    (outcome.st # "None" /\ HeaderOnly(input)) =>
        /\ StrictNameAndResources
        /\ HeaderAccepted(input) =>
              /\ outcome.st = "Ok"
              /\ Len(outcome.masl.icons) = Len(SelectSeq(input.icons, IconHasSrcKey))

\* C4 (amended): strict for name and resources; an icons entry that is not
\* a map or has no text value under src is omitted, every other icon is kept
\* in order, and the parse succeeds.
C4_IconsWithTextSrcKept ==
    (outcome.st # "None" /\ HeaderOnly(input)) =>
        /\ StrictNameAndResources
        /\ HeaderAccepted(input) =>
              /\ outcome.st = "Ok"
              /\ DOMAIN outcome.masl.resources = {ResourceKey(i) : i \in 1..Len(input.res)}
              /\ outcome.masl.icons =
                    LET kept == SelectSeq(input.icons, IconHasTextSrc)
                    IN  [i \in 1..Len(kept) |-> IconOf(kept[i])]

\* a header whose icons hold an entry without src before one with src has
\* been parsed, successfully
C4_Witness ==
    /\ outcome.st = "Ok"
    /\ HeaderOnly(input)
    /\ Len(input.res) > 0
    /\ \E i, j \in 1..Len(input.icons) :
          i < j /\ input.icons[i] = 4 /\ IconHasTextSrc(input.icons[j])

\* the last component of a path that names a file
BaseName(path) ==
    LET starts == {i \in 1..(Len(path) + 1) : \A j \in i..Len(path) : path[j] # 47}
    IN  SubSeq(path, Least(starts), Len(path))

\* s without the hyphens at its ends
TrimHyphens(s) ==
    LET inner == {i \in 1..Len(s) : s[i] # 45}
    IN  IF inner = {} THEN << >>
        ELSE SubSeq(s, Least(inner), CHOOSE i \in inner : \A j \in inner : j <= i)

LowerCase(c) == IF c \in 65..90 \/ (c \in 192..222 /\ c # 215) THEN c + 32 ELSE c

IsLetterOrDigit(c) == c \in (48..57) \cup (97..122)

\* a path whose last component is a file name
NamesFile(path) ==
    /\ Len(path) > 0
    /\ path[Len(path)] # 47
    /\ BaseName(path) \notin {<<46>>, <<46, 46>>}

\* C5 (as claimed): the authority is the base name, extension included, in
\* lower case, with every character that is not an ASCII letter, digit,
\* hyphen or period replaced by a hyphen, and the hyphens at its ends
\* trimmed; "My Document.tile" gives "my-document.tile".
C5_ExtensionKept ==
    (authority.st = "Done" /\ NamesFile(fname)) =>
        /\ authority.v =
              TrimHyphens([i \in 1..Len(BaseName(fname)) |->
                  LET c == LowerCase(BaseName(fname)[i])
                  IN  IF IsLetterOrDigit(c) \/ c \in {45, 46} THEN c ELSE 45])
        /\ fname = MyDocumentTile => authority.v = <<109, 121, 45, 100, 111, 99, 117, 109, 101, 110, 116, 46, 116, 105, 108, 101>>

\* the base name up to its last period, the whole of it when that period
\* is its first character or it has none
Stem(name) ==
    LET dots == {i \in 2..Len(name) : name[i] = 46}
    IN  IF dots = {} THEN name
        ELSE SubSeq(name, 1, (CHOOSE i \in dots : \A j \in dots : j <= i) - 1)

\* C5 (amended): the authority is the file stem (the base name without its
\* last extension), in lower case, with every character that is not an
\* ASCII letter, digit or hyphen (so also every period) replaced by a
\* hyphen, and the hyphens at its ends trimmed; "My Document.tile" gives
\* "my-document".
C5_StemWithoutPeriods ==
    (authority.st = "Done" /\ NamesFile(fname)) =>
        /\ authority.v =
              TrimHyphens([i \in 1..Len(Stem(BaseName(fname))) |->
                  LET c == LowerCase(Stem(BaseName(fname))[i])
                  IN  IF IsLetterOrDigit(c) \/ c = 45 THEN c ELSE 45])
        /\ fname = MyDocumentTile => authority.v = <<109, 121, 45, 100, 111, 99, 117, 109, 101, 110, 116>>

\* the authority of "My Document.tile" has been derived
C5_Witness == authority.st = "Done" /\ fname = MyDocumentTile

(***************************************************************************)
(* The running program: threads that open tiles (open_tile, load_tile) and *)
(* serve tile: requests (handle_tile_protocol) against one TileStore.      *)
(***************************************************************************)

\* how many requests and opens are made in all
MaxOps == 3

Threads == {1, 2}

\* the files on disk
PathA == <<97, 46, 116, 105, 108, 101>>

PathA2 == <<65, 46, 116, 105, 108, 101>>

PathB == <<98, 46, 116, 105, 108, 101>>

PathC == <<99, 46, 116, 105, 108, 101>>

\* a.tile: "/index.html" with a content type and a header x, "/x" whose
\* identifier has no block
FileA ==
    HeaderBytes(MapV(<<
        <<Text(S_name), Text(<<116>>)>>,
        <<Text(S_resources), MapV(<<
            <<Text(S_index_html), MapV(<< <<Text(S_src), Link(CidA)>>,
                                         <<Text(S_content_type), Text(<<116, 101, 120, 116, 47, 104, 116, 109, 108>>)>>,
                                         <<Text(<<120>>), Text(<<118>>)>> >>)>>,
            <<Text(<<47, 120>>), MapV(<< <<Text(S_src), Link(CidB)>> >>)>> >>)>> >>))
        \o BlockBytes(CidA, <<1, 2>>)

\* A.tile: "/" with a text under a key that is a number, not a text
FileA2 ==
    HeaderBytes(MapV(<<
        <<Text(S_name), Text(<<117>>)>>,
        <<Text(S_resources), MapV(<<
            <<Text(<<47>>), MapV(<< <<Text(S_src), Link(CidA)>>,
                                   <<IntV(1), Text(<<118>>)>> >>)>> >>)>> >>))
        \o BlockBytes(CidA, <<3>>)

\* b.tile: a header length of 5 and one byte
FileB == <<5, 160>>

\* c.tile: "/" served by a block whose length, 1, is less than its identifier's
FileC ==
    HeaderBytes(MapV(<<
        <<Text(S_name), Text(<<119>>)>>,
        <<Text(S_resources), MapV(<<
            <<Text(<<47>>), MapV(<< <<Text(S_src), Link(CidZ)>> >>)>> >>)>> >>))
        \o <<1>> \o CidZ

\* the files and their bytes, which never change
FileBytes == (PathA :> FileA) @@ (PathA2 :> FileA2) @@ (PathB :> FileB) @@ (PathC :> FileC)

Paths == DOMAIN FileBytes

\* what parse_tile makes of each file, in each build
parsed == [path \in Paths |-> [b \in Builds |-> parse_tile(FileBytes[path], b)]]

\* files that may be deleted while the program runs
Removable == {PathA}

\* the requests made, tile://<authority><path>: tile://a, tile://a/x,
\* tile://a/nope and tile://c
Requests ==
    {[authority |-> <<97>>, raw_path |-> << >>],
     [authority |-> <<97>>, raw_path |-> <<47, 120>>],
     [authority |-> <<97>>, raw_path |-> <<47, 110, 111, 112, 101>>],
     [authority |-> <<99>>, raw_path |-> << >>]}

NoLoc == [op |-> "none"]

NoOut == [kind |-> "none"]

\* thread t unwinds from a panic in the operation op
Panicked(op) == [kind |-> "panic", op |-> op]

Init ==
    /\ build \in Builds
    /\ disk = Paths
    /\ store = EmptyMap
    /\ lock = 0
    /\ poisoned = FALSE
    /\ pc = [t \in Threads |-> "idle"]
    /\ loc = [t \in Threads |-> NoLoc]
    /\ out = [t \in Threads |-> NoOut]
    /\ log = << >>
    /\ opsLeft = MaxOps
    /\ input = NoInput /\ outcome = NotRun
    /\ reqPath = << >> /\ reqResources = EmptyMap /\ served = NotRun
    /\ fname = << >> /\ authority = NotRun
    /\ buf = << >> /\ decoded = NotRun

pureVars == <<build, parseVars, resolveVars, authVars, varintVars>>

\* a tile: request arrives on thread t
HStart(t, req) ==
    /\ pc[t] = "idle" /\ opsLeft > 0
    /\ opsLeft' = opsLeft - 1
    /\ pc' = [pc EXCEPT ![t] = "h_lock"]
    /\ loc' = [loc EXCEPT ![t] = [op |-> "request", authority |-> req.authority,
                                  path |-> normalise(req.raw_path)]]
    /\ out' = [out EXCEPT ![t] = NoOut]
    /\ UNCHANGED <<disk, store, lock, poisoned, log, pureVars>>

\* let guard = store.0.lock().unwrap();
HLock(t) ==
    /\ pc[t] = "h_lock" /\ lock = 0
    /\ IF poisoned
       THEN /\ pc' = [pc EXCEPT ![t] = "idle"]
            /\ out' = [out EXCEPT ![t] = Panicked("request")]
            /\ loc' = [loc EXCEPT ![t] = NoLoc]
            /\ lock' = lock
       ELSE /\ pc' = [pc EXCEPT ![t] = "h_resolve"]
            /\ lock' = t
            /\ UNCHANGED <<out, loc>>
    /\ UNCHANGED <<disk, store, poisoned, log, opsLeft, pureVars>>

\* guard.get(authority) ... the index lookup of tile.read_block(src)
HResolve(t) ==
    /\ pc[t] = "h_resolve"
    /\ LET r == handler_resolve(store, loc[t].authority, loc[t].path)
       IN  IF r.done
           THEN /\ pc' = [pc EXCEPT ![t] = "idle"]
                /\ out' = [out EXCEPT ![t] = [kind |-> "response", resp |-> r.resp]]
                /\ loc' = [loc EXCEPT ![t] = NoLoc]
                /\ lock' = 0
           ELSE /\ pc' = [pc EXCEPT ![t] = "h_io"]
                /\ loc' = [loc EXCEPT ![t] = [op |-> "request",
                                              authority |-> loc[t].authority,
                                              path |-> loc[t].path, file |-> r.file,
                                              res |-> r.res, entry |-> r.entry]]
                /\ UNCHANGED <<out, lock>>
    /\ UNCHANGED <<disk, store, poisoned, log, opsLeft, pureVars>>

\* the file read of tile.read_block(src) ... builder.body(data).unwrap()
HRespond(t) ==
    /\ pc[t] = "h_io"
    /\ \E order \in Orders(DOMAIN loc[t].res) :
          LET r == handler_respond([p \in disk |-> FileBytes[p]], loc[t].file, loc[t].res,
                                   loc[t].entry, order)
          IN  /\ out' = [out EXCEPT ![t] = IF r.kind = "panic" THEN Panicked("request")
                                            ELSE r]
              /\ poisoned' = (poisoned \/ r.kind = "panic")
    /\ pc' = [pc EXCEPT ![t] = "idle"]
    /\ loc' = [loc EXCEPT ![t] = NoLoc]
    /\ lock' = 0
    /\ UNCHANGED <<disk, store, log, opsLeft, pureVars>>

\* open_tile(path, ...) is called on thread t
LStart(t, path) ==
    /\ pc[t] = "idle" /\ opsLeft > 0
    /\ opsLeft' = opsLeft - 1
    /\ pc' = [pc EXCEPT ![t] = "l_parse"]
    /\ loc' = [loc EXCEPT ![t] = [op |-> "open", path |-> path]]
    /\ out' = [out EXCEPT ![t] = NoOut]
    /\ UNCHANGED <<disk, store, lock, poisoned, log, pureVars>>

\* open_tile returns its Result on thread t
load_return(t, ok) ==
    /\ pc' = [pc EXCEPT ![t] = "idle"]
    /\ out' = [out EXCEPT ![t] = [kind |-> "opened", ok |-> ok]]
    /\ log' = Append(log, [path |-> loc[t].path, ok |-> ok])
    /\ loc' = [loc EXCEPT ![t] = NoLoc]

\* let content = parse_tile(path)?; let authority = authority_from_path(path);
LParse(t) ==
    /\ pc[t] = "l_parse"
    /\ IF loc[t].path \notin disk
       THEN load_return(t, FALSE)
       ELSE LET content == parsed[loc[t].path][build]
            IN  CASE content.st = "Err" -> load_return(t, FALSE)
                  [] content.st = "Panic" ->
                        /\ pc' = [pc EXCEPT ![t] = "idle"]
                        /\ out' = [out EXCEPT ![t] = Panicked("open")]
                        /\ loc' = [loc EXCEPT ![t] = NoLoc]
                        /\ log' = log
                  [] content.st = "Hang" ->
                        /\ pc' = [pc EXCEPT ![t] = "l_hang"]
                        /\ UNCHANGED <<out, loc, log>>
                  [] content.st = "Ok" ->
                        /\ pc' = [pc EXCEPT ![t] = "l_insert"]
                        /\ loc' = [loc EXCEPT ![t] =
                                     [op |-> "open", path |-> loc[t].path,
                                      authority |-> authority_from_path(loc[t].path),
                                      content |-> [path |-> loc[t].path,
                                                   masl |-> content.masl,
                                                   index |-> content.index]]]
                        /\ UNCHANGED <<out, log>>
    /\ UNCHANGED <<disk, store, lock, poisoned, opsLeft, pureVars>>

\* state.0.lock().unwrap().insert(authority, content);
LInsert(t) ==
    /\ pc[t] = "l_insert" /\ lock = 0
    /\ IF poisoned
       THEN /\ pc' = [pc EXCEPT ![t] = "idle"]
            /\ out' = [out EXCEPT ![t] = Panicked("open")]
            /\ loc' = [loc EXCEPT ![t] = NoLoc]
            /\ store' = store
       ELSE /\ store' = MapInsert(store, loc[t].authority, loc[t].content)
            /\ pc' = [pc EXCEPT ![t] = "l_emit"]
            /\ UNCHANGED <<out, loc>>
    /\ UNCHANGED <<disk, lock, poisoned, log, opsLeft, pureVars>>

\* app.emit("tile:opened", &payload)?; Ok(payload)
LEmit(t) ==
    /\ pc[t] = "l_emit"
    /\ \E emitted \in BOOLEAN : load_return(t, emitted)
    /\ UNCHANGED <<disk, store, lock, poisoned, opsLeft, pureVars>>

\* a file is deleted behind the program's back
RemoveFile(path) ==
    /\ path \in disk \cap Removable
    /\ disk' = disk \ {path}
    /\ UNCHANGED <<store, lock, poisoned, pc, loc, out, log, opsLeft, pureVars>>

Next ==
    \/ \E t \in Threads, req \in Requests : HStart(t, req)
    \/ \E t \in Threads : HLock(t)
    \/ \E t \in Threads : HResolve(t)
    \/ \E t \in Threads : HRespond(t)
    \/ \E t \in Threads, path \in Paths : LStart(t, path)
    \/ \E t \in Threads : LParse(t)
    \/ \E t \in Threads : LInsert(t)
    \/ \E t \in Threads : LEmit(t)
    \/ \E path \in Removable : RemoveFile(path)

Spec == Init /\ [][Next]_vars

(***************************************************************************)
(* Claims about the running program.                                       *)
(***************************************************************************)

\* the resource a request path names in a resource map, as the resolver is
\* described: under the first candidate key that the map holds
ClaimedResource(resources, path) ==
    LET cands == ClaimedCandidates(path)
        hits == {i \in 1..Len(cands) : cands[i] \in DOMAIN resources}
    IN  IF hits = {} THEN None ELSE Some(resources[cands[Least(hits)]])

\* whether the range an index entry denotes can be read from a file
Readable(files, file, entry) ==
    /\ file \in files
    /\ entry[2] >= 0
    /\ entry[1] + entry[2] <= Len(FileBytes[file])

\* the status the handler is described to answer with
ClaimedStatus(st, files, auth, path) ==
    IF auth \notin DOMAIN st THEN 404
    ELSE LET res == ClaimedResource(st[auth].masl.resources, path)
         IN  IF ~res.some THEN 404
             ELSE IF res.v.src \notin DOMAIN st[auth].index THEN 500
             ELSE IF ~Readable(files, st[auth].path, st[auth].index[res.v.src]) THEN 500
             ELSE 200

\* a 200 response as described: the block's bytes, one content-type header,
\* the cross-origin header, and every other key of the resource once
ClaimedOk(resp, tile, res) ==
    LET entry == tile.index[res.src]
        others == DOMAIN res.headers \ {S_content_type, S_src}
        ct == IF S_content_type \in DOMAIN res.headers THEN res.headers[S_content_type]
              ELSE <<97, 112, 112, 108, 105, 99, 97, 116, 105, 111, 110, 47, 111, 99, 116, 101, 116, 45, 115, 116, 114, 101, 97, 109>>
        has(h) == \E i \in 1..Len(resp.headers) : resp.headers[i] = h
    IN  /\ resp.body = SubSeq(FileBytes[tile.path], entry[1] + 1, entry[1] + entry[2])
        /\ Len(resp.headers) = 2 + Cardinality(others)
        /\ has(<<S_content_type, ct>>)
        /\ has(<<<<97, 99, 99, 101, 115, 115, 45, 99, 111, 110, 116, 114, 111, 108, 45, 97, 108, 108, 111, 119, 45, 111, 114, 105, 103, 105, 110>>, <<42>>>>)
        /\ \A k \in others : has(<<k, res.headers[k]>>)

\* thread t returns from the handler in this step
HandlerReturns(t) ==
    /\ pc[t] \in {"h_lock", "h_resolve", "h_io"}
    /\ pc'[t] = "idle"

\* C6 (as claimed): every request is answered, with status 404 when the
\* authority is not in the Store or no candidate path is a resource key, 500
\* when the block read fails, and 200 otherwise; a 200 response carries the
\* block's bytes, a content-type header, the cross-origin header and every
\* other resource key forwarded once.
C6_StatusAndHeaders ==
    [][\A t \in Threads :
          HandlerReturns(t) =>
              /\ out'[t].kind = "response"
              /\ LET status == ClaimedStatus(store, disk, loc[t].authority, loc[t].path)
                 IN  /\ out'[t].resp.status = status
                     /\ status = 200 =>
                           ClaimedOk(out'[t].resp, store[loc[t].authority],
                                     ClaimedResource(store[loc[t].authority].masl.resources,
                                                     loc[t].path).v)]_vars

\* thread t holds the Store lock on a request for a resource whose
\* identifier is not in its tile's index
MissingBlockRequest(t) ==
    /\ pc[t] = "h_resolve"
    /\ loc[t].authority \in DOMAIN store
    /\ LET res == ClaimedResource(store[loc[t].authority].masl.resources, loc[t].path)
       IN  res.some /\ res.v.src \notin DOMAIN store[loc[t].authority].index

\* the answer to a request for a resource whose identifier is not indexed:
\* the given status, the Block Reader's message, and nothing else changed
MissingBlockAnswer(t, status) ==
    LET res == ClaimedResource(store[loc[t].authority].masl.resources, loc[t].path)
    IN  /\ out'[t].kind = "response"
        /\ out'[t].resp.status = status
        /\ out'[t].resp.body = <<98, 108, 111, 99, 107, 32, 110, 111, 116, 32, 102, 111, 117, 110, 100, 32, 102, 111, 114, 32, 67, 73, 68, 32>> \o res.v.src
        /\ store' = store
        /\ poisoned' = poisoned
        /\ lock' = 0

\* C7 (as claimed): a request for a resource whose identifier is absent from
\* the index of its (successfully parsed) tile is answered with status 404
\* and the Block Reader's not-found message, and the Store is left as it was.
C7_MissingBlockIs404 ==
    [][\A t \in Threads :
          (MissingBlockRequest(t) /\ pc'[t] # pc[t]) => MissingBlockAnswer(t, 404)]_vars

\* C7 (amended): a request for a resource whose identifier is absent from
\* the index of its (successfully parsed) tile is answered with status 500
\* and the Block Reader's not-found message, and the Store is left as it was.
C7_MissingBlockIs500 ==
    [][\A t \in Threads :
          (MissingBlockRequest(t) /\ pc'[t] # pc[t]) => MissingBlockAnswer(t, 500)]_vars

\* a.tile, whose "/x" names an identifier without a block, is in the Store
\* and a request for tile://a/x has been answered with the not-found message
C7_Witness ==
    /\ <<97>> \in DOMAIN store
    /\ store[<<97>>].path = PathA
    /\ CidB \notin DOMAIN store[<<97>>].index
    /\ \E t \in Threads :
          /\ out[t].kind = "response"
          /\ out[t].resp.body = <<98, 108, 111, 99, 107, 32, 110, 111, 116, 32, 102, 111, 117, 110, 100, 32, 102, 111, 114, 32, 67, 73, 68, 32>> \o CidB

\* C8 (as claimed): no thread is in the file read of read_block while it
\* holds the Store lock.
C8_NoLockDuringBlockRead == \A t \in Threads : pc[t] = "h_io" => lock # t

\* the opens that have returned success for an authority, by position in
\* the order of their return
SuccessfulOpens(a) ==
    {i \in 1..Len(log) : log[i].ok /\ authority_from_path(log[i].path) = a}

\* C9 (as claimed): when no open is under way, the Store holds exactly the
\* authorities of the opens that returned success, each with the container
\* of the most recent of them; an open that returned an error left no entry.
C9_StoreIsLastSuccessfulOpen ==
    (\A t \in Threads : pc[t] \notin {"l_parse", "l_insert", "l_emit", "l_hang"}) =>
        /\ \A a \in DOMAIN store : SuccessfulOpens(a) # {}
        /\ \A i \in 1..Len(log) :
              log[i].ok =>
                  LET a == authority_from_path(log[i].path)
                      last == CHOOSE j \in SuccessfulOpens(a) :
                                 \A k \in SuccessfulOpens(a) : k <= j
                  IN  a \in DOMAIN store /\ store[a].path = log[last].path

\* C10 (as claimed): the handler never panics, and the Store lock is never
\* poisoned.
C10_HandlerNeverPanics ==
    /\ ~poisoned
    /\ \A t \in Threads : out[t].kind = "panic" => out[t].op # "request"

(***************************************************************************)
(* Claims about read_uvarint.                                              *)
(***************************************************************************)

\* the bits of the little-endian base-128 value of the first n bytes of
\* data: bit k of the i-th byte (from 0) is bit 7 * i + k of the value
ExactBits(data, n) ==
    {b \in 0..(7 * n - 1) : (data[(b \div 7) + 1] \div (2^(b % 7))) % 2 = 1}

\* the bytes of data without the continuation bit, by position
Terminators(data) == {i \in 1..Len(data) : data[i] < 128}

\* C11 (as claimed): read_uvarint returns no value when the buffer ends
\* before a byte without the continuation bit, and when the first 9 bytes
\* all carry the continuation bit; a value it returns is the exact
\* little-endian base-128 value of the bytes consumed, which end at the
\* first byte without the continuation bit, no bit being shifted out of
\* the 64-bit accumulator.
C11_NoValueBeyondNineGroups ==
    decoded.st = "Done" =>
        /\ Terminators(buf) = {} => ~decoded.r.some
        /\ (Len(buf) >= 9 /\ \A i \in 1..9 : buf[i] >= 128) => ~decoded.r.some
        /\ decoded.r.some =>
              /\ decoded.r.n = Least(Terminators(buf))
              /\ decoded.r.value = ExactBits(buf, decoded.r.n)

====
